---- MODULE Spec2Model ----
(***************************************************************************)
(* Model of thrivenbookapp/models.py: the User, BookPost, Comment,        *)
(* SavedPost, PostLike, Notification and UserFollow tables, the save()     *)
(* overrides, the unique_together constraints, the on_delete=CASCADE       *)
(* foreign keys and the derived-value methods.                             *)
(*                                                                         *)
(* User and BookPost rows are keyed by primary key (other tables refer to  *)
(* them).  The rows of the other tables are kept as sequences in insertion *)
(* order, so that two rows with equal columns are two rows: uniqueness is  *)
(* something the constraints have to establish.                            *)
(***************************************************************************)
EXTENDS Integers, Sequences, FiniteSets, TLC

VARIABLES
    user,           \* User table: pk -> [is_author, date_of_birth]
    bookpost,       \* BookPost table: pk -> [author, is_active, comment_section_closed]
    bookpost_seq,   \* last primary key handed out for BookPost
    comment,        \* Comment rows
    savedpost,      \* SavedPost rows
    postlike,       \* PostLike rows
    notification,   \* Notification rows
    userfollow,     \* UserFollow rows
    now,            \* timezone.now(): the instant stamped into created_at
    today,          \* timezone.now().date()
    writer,         \* concurrent requests writing PostLike / SavedPost rows
    ret             \* the last call: [op, args, result]

vars == <<user, bookpost, bookpost_seq, comment, savedpost, postlike,
          notification, userfollow, now, today, writer, ret>>

store == <<user, bookpost, bookpost_seq, comment, savedpost, postlike,
           notification, userfollow>>

(***************************************************************************)
(* Bounds of the model.                                                    *)
(***************************************************************************)
NumUsers == 2       \* accounts registered at the start
MaxPosts == 1       \* BookPost rows ever created
MaxComments == 2    \* Comment rows at a time
MaxRows == 2        \* rows of the dependent tables, all together
MaxTime == 1        \* instants of the created_at clock
NumWriters == 2     \* concurrent PostLike / SavedPost requests
YearSpan == 2       \* years BaseYear .. BaseYear + YearSpan
MaxMonth == 2       \* months 1 .. MaxMonth
MaxDay == 2         \* days 1 .. MaxDay

BaseYear == 2000

\* A nullable value: None is the empty tuple, a value x present is <<x>>
None == <<>>
Some(x) == <<x>>
ValueOf(o) == o[1]
AnonymousUser == 0      \* django.contrib.auth AnonymousUser: no row in User

UserIds == 1 .. NumUsers
Writers == 1 .. NumWriters

\* COMMENT_IMPORTANCE choices and the field's default
COMMENT_IMPORTANCE == {1, 2, 3, 4}
DefaultImportance == 2

Dates == [year : BaseYear .. BaseYear + YearSpan, month : 1 .. MaxMonth, day : 1 .. MaxDay]

Range(s) == {s[i] : i \in DOMAIN s}

\* The row at index i taken out of a table
RemoveAt(rows, i) ==
    [j \in 1 .. (Len(rows) - 1) |-> IF j < i THEN rows[j] ELSE rows[j + 1]]

Call(op, args, result) == [op |-> op, args |-> args, result |-> result]

(***************************************************************************)
(* Init: NumUsers registered accounts, the first of them an author, nobody *)
(* with a date of birth (the column is nullable), every other table empty. *)
(***************************************************************************)
Init ==
    /\ user = [u \in UserIds |-> [is_author |-> (u = 1), date_of_birth |-> None]]
    /\ bookpost = <<>>
    /\ bookpost_seq = 0
    /\ comment = <<>>
    /\ savedpost = <<>>
    /\ postlike = <<>>
    /\ notification = <<>>
    /\ userfollow = <<>>
    /\ now = 0
    /\ today = [year |-> BaseYear, month |-> 1, day |-> 1]
    /\ writer = [w \in Writers |-> [pc |-> "idle", kind |-> "none", user |-> 0, post |-> 0,
                                   free |-> FALSE]]
    /\ ret = Call("none", <<>>, None)

(***************************************************************************)
(* UserFollow                                                              *)
(***************************************************************************)
\* unique_together = ['follower', 'followed']: the rows the new one collides with
FollowConflicts(rows, f, d) ==
    {i \in DOMAIN rows : rows[i].follower = f /\ rows[i].followed = d}

\* UserFollow.save without the self-follow test
UserFollowSave_NoSelfCheck(f, d) ==
    /\ IF FollowConflicts(userfollow, f, d) # {}
         THEN /\ ret' = Call("UserFollow.save", <<f, d>>, "IntegrityError")
              /\ UNCHANGED userfollow
         ELSE /\ userfollow' = Append(userfollow, [follower |-> f, followed |-> d])
              /\ ret' = Call("UserFollow.save", <<f, d>>, "saved")
    /\ UNCHANGED <<user, bookpost, bookpost_seq, comment, savedpost, postlike,
                   notification, now, today, writer>>

\* UserFollow.save without the unique_together constraint
UserFollowSave_NoUnique(f, d) ==
    /\ IF f = d
         THEN /\ ret' = Call("UserFollow.save", <<f, d>>, "ValueError")
              /\ UNCHANGED userfollow
         ELSE /\ userfollow' = Append(userfollow, [follower |-> f, followed |-> d])
              /\ ret' = Call("UserFollow.save", <<f, d>>, "saved")
    /\ UNCHANGED <<user, bookpost, bookpost_seq, comment, savedpost, postlike,
                   notification, now, today, writer>>

\* UserFollow(follower=f, followed=d).save()
UserFollowSave(f, d) ==
    /\ IF f = d
         THEN /\ ret' = Call("UserFollow.save", <<f, d>>, "ValueError")
              /\ UNCHANGED userfollow
         ELSE IF FollowConflicts(userfollow, f, d) # {}
         THEN /\ ret' = Call("UserFollow.save", <<f, d>>, "IntegrityError")
              /\ UNCHANGED userfollow
         ELSE /\ userfollow' = Append(userfollow, [follower |-> f, followed |-> d])
              /\ ret' = Call("UserFollow.save", <<f, d>>, "saved")
    /\ UNCHANGED <<user, bookpost, bookpost_seq, comment, savedpost, postlike,
                   notification, now, today, writer>>

\* UserFollow row i .delete()
UserFollowDelete(i) ==
    /\ userfollow' = RemoveAt(userfollow, i)
    /\ ret' = Call("UserFollow.delete", <<i>>, 1)
    /\ UNCHANGED <<user, bookpost, bookpost_seq, comment, savedpost, postlike,
                   notification, now, today, writer>>

(***************************************************************************)
(* User                                                                    *)
(***************************************************************************)
\* user.is_author = a; user.date_of_birth = d; user.save()
UserSave(u, a, d) ==
    /\ user' = [user EXCEPT ![u] = [is_author |-> a, date_of_birth |-> d]]
    /\ ret' = Call("User.save", <<u>>, "saved")
    /\ UNCHANGED <<bookpost, bookpost_seq, comment, savedpost, postlike,
                   notification, userfollow, now, today, writer>>

\* Python's < on two tuples of integers of the same length
RECURSIVE TupleLess(_, _)
TupleLess(a, b) ==
    IF a = <<>> \/ b = <<>> THEN Len(a) < Len(b)
    ELSE IF Head(a) # Head(b) THEN Head(a) < Head(b)
    ELSE TupleLess(Tail(a), Tail(b))

\* A bool used as an int in arithmetic
BoolAsInt(b) == IF b THEN 1 ELSE 0

\* get_age with the month/day correction dropped
GetAgeOf_YearsOnly(dob, day) ==
    IF dob # None THEN Some(day.year - ValueOf(dob).year) ELSE None

\* User.get_age for a date of birth and the value of timezone.now().date()
GetAgeOf(dob, day) ==
    IF dob # None
      THEN Some(day.year - ValueOf(dob).year
                  - BoolAsInt(TupleLess(<<day.month, day.day>>,
                                        <<ValueOf(dob).month, ValueOf(dob).day>>)))
      ELSE None

\* user.get_age()
GetAge(u) ==
    /\ ret' = Call("get_age", <<u>>, GetAgeOf(user[u].date_of_birth, today))
    /\ UNCHANGED <<store, now, today, writer>>

\* The calendar moves on to a later date
DateLess(a, b) == TupleLess(<<a.year, a.month, a.day>>, <<b.year, b.month, b.day>>)

AdvanceDate(d) ==
    /\ DateLess(today, d)
    /\ today' = d
    /\ ret' = Call("date", <<>>, None)
    /\ UNCHANGED <<store, now, writer>>

\* The clock moves on to the next instant
Tick ==
    /\ now' = now + 1
    /\ ret' = Call("tick", <<>>, None)
    /\ UNCHANGED <<store, today, writer>>

(***************************************************************************)
(* BookPost                                                                *)
(***************************************************************************)
\* BookPost(author=a, is_active=act, comment_section_closed=closed).save()
\* on a new instance.  limit_choices_to narrows the choices a form offers;
\* save() does not consult it.
BookPostCreate(a, act, closed) ==
    /\ bookpost_seq' = bookpost_seq + 1
    /\ bookpost' = [p \in DOMAIN bookpost \cup {bookpost_seq + 1} |->
                      IF p = bookpost_seq + 1
                        THEN [author |-> a, is_active |-> act,
                              comment_section_closed |-> closed]
                        ELSE bookpost[p]]
    /\ ret' = Call("BookPost.save", <<bookpost_seq + 1, a>>, "saved")
    /\ UNCHANGED <<user, comment, savedpost, postlike, notification, userfollow,
                   now, today, writer>>

\* post.is_active = act; post.comment_section_closed = closed; post.save()
BookPostUpdate(p, act, closed) ==
    /\ bookpost' = [bookpost EXCEPT ![p].is_active = act,
                                    ![p].comment_section_closed = closed]
    /\ ret' = Call("BookPost.update", <<p>>, "saved")
    /\ UNCHANGED <<user, bookpost_seq, comment, savedpost, postlike, notification,
                   userfollow, now, today, writer>>

\* user.is_authenticated: True on a User, False on AnonymousUser
IsAuthenticated(u) == u # AnonymousUser

\* can_user_comment without the comment_section_closed test
CanUserCommentOf_IgnoreClosed(post, u) ==
    post.is_active /\ IsAuthenticated(u)

\* BookPost.can_user_comment for a post row and a requesting user
CanUserCommentOf(post, u) ==
    post.is_active /\ ~post.comment_section_closed /\ IsAuthenticated(u)

\* post.can_user_comment(u)
CanUserComment(p, u) ==
    /\ ret' = Call("can_user_comment", <<p, u>>, CanUserCommentOf(bookpost[p], u))
    /\ UNCHANGED <<store, now, today, writer>>

(***************************************************************************)
(* Comment                                                                 *)
(***************************************************************************)
\* The pin test of Comment.save with the author test dropped
PinnedOnSave_Unchecked(pin, p, u) == pin

\* Comment.save: is_pinned as written by super().save()
PinnedOnSave(pin, p, u) ==
    IF pin /\ ~(bookpost[p].author = u) THEN FALSE ELSE pin

\* Comment(user=u, post=p, is_pinned=pin, importance_level=imp).save() on a
\* new instance; created_at is auto_now_add.  The call is recorded with the
\* row written, the arguments and whether the row is new.
CommentCreate(u, p, pin, imp) ==
    /\ comment' = Append(comment, [user |-> u, post |-> p,
                                   is_pinned |-> PinnedOnSave(pin, p, u),
                                   importance_level |-> imp,
                                   created_at |-> now])
    /\ ret' = Call("Comment.save", <<Len(comment) + 1, u, p, pin, TRUE>>, "saved")
    /\ UNCHANGED <<user, bookpost, bookpost_seq, savedpost, postlike, notification,
                   userfollow, now, today, writer>>

\* c.is_pinned = pin; c.importance_level = imp; c.save() on the stored row i
CommentUpdate(i, pin, imp) ==
    /\ comment' = [comment EXCEPT
                     ![i].is_pinned = PinnedOnSave(pin, comment[i].post, comment[i].user),
                     ![i].importance_level = imp]
    /\ ret' = Call("Comment.save", <<i, comment[i].user, comment[i].post, pin, FALSE>>,
                    "saved")
    /\ UNCHANGED <<user, bookpost, bookpost_seq, savedpost, postlike, notification,
                   userfollow, now, today, writer>>

\* Comment row i .delete()
CommentDelete(i) ==
    /\ comment' = RemoveAt(comment, i)
    /\ ret' = Call("Comment.delete", <<i>>, 1)
    /\ UNCHANGED <<user, bookpost, bookpost_seq, savedpost, postlike, notification,
                   userfollow, now, today, writer>>

\* filter(is_pinned=True) on post.comments: the indices of the rows selected
PinnedRows(p) ==
    {i \in DOMAIN comment : comment[i].post = p /\ comment[i].is_pinned}

\* order_by('importance_level', 'created_at'): the importance order reversed
OrderedBefore_Ascending(a, b) ==
    \/ a.importance_level < b.importance_level
    \/ /\ a.importance_level = b.importance_level
       /\ a.created_at < b.created_at

\* order_by('-importance_level', 'created_at'): row a sorts strictly before row b
OrderedBefore(a, b) ==
    \/ a.importance_level > b.importance_level
    \/ /\ a.importance_level = b.importance_level
       /\ a.created_at < b.created_at

\* The orders in which the database may return the rows `rows` under the
\* ORDER BY: rows that tie on both keys come in any order
OrderBy(rows) ==
    {s \in [1 .. Cardinality(rows) -> rows] :
        /\ \A i, j \in DOMAIN s : i # j => s[i] # s[j]
        /\ \A i, j \in DOMAIN s : i < j => ~OrderedBefore(comment[s[j]], comment[s[i]])}

\* list(post.get_pinned_comments()): the result is the sequence of row indices
GetPinnedComments(p) ==
    /\ \E s \in OrderBy(PinnedRows(p)) : ret' = Call("get_pinned_comments", <<p>>, s)
    /\ UNCHANGED <<store, now, today, writer>>

(***************************************************************************)
(* SavedPost, PostLike, Notification                                       *)
(***************************************************************************)
\* unique_together = ['user', 'post']: the rows the new one collides with
PairConflicts(rows, u, p) ==
    {i \in DOMAIN rows : rows[i].user = u /\ rows[i].post = p}

\* An INSERT into a table that carries no unique index
InsertUnique_NoIndex(rows, u, p) ==
    [status |-> "saved", rows |-> Append(rows, [user |-> u, post |-> p])]

\* The INSERT behind super().save() on a table with unique_together on
\* (user, post): the index is checked and the row added in one step
InsertUnique(rows, u, p) ==
    IF PairConflicts(rows, u, p) # {}
      THEN [status |-> "IntegrityError", rows |-> rows]
      ELSE [status |-> "saved", rows |-> Append(rows, [user |-> u, post |-> p])]

\* SavedPost(user=u, post=p).save()
SavedPostSave(u, p) ==
    /\ savedpost' = InsertUnique(savedpost, u, p).rows
    /\ ret' = Call("SavedPost.save", <<u, p>>, InsertUnique(savedpost, u, p).status)
    /\ UNCHANGED <<user, bookpost, bookpost_seq, comment, postlike, notification,
                   userfollow, now, today>>

\* PostLike(user=u, post=p).save()
PostLikeSave(u, p) ==
    /\ postlike' = InsertUnique(postlike, u, p).rows
    /\ ret' = Call("PostLike.save", <<u, p>>, InsertUnique(postlike, u, p).status)
    /\ UNCHANGED <<user, bookpost, bookpost_seq, comment, savedpost, notification,
                   userfollow, now, today>>

\* SavedPost row i .delete()
SavedPostDelete(i) ==
    /\ savedpost' = RemoveAt(savedpost, i)
    /\ ret' = Call("SavedPost.delete", <<i>>, 1)
    /\ UNCHANGED <<user, bookpost, bookpost_seq, comment, postlike, notification,
                   userfollow, now, today, writer>>

\* PostLike row i .delete()
PostLikeDelete(i) ==
    /\ postlike' = RemoveAt(postlike, i)
    /\ ret' = Call("PostLike.delete", <<i>>, 1)
    /\ UNCHANGED <<user, bookpost, bookpost_seq, comment, savedpost, notification,
                   userfollow, now, today, writer>>

\* Notification(user=u, related_post=p).save(); related_post may be None
NotificationSave(u, p) ==
    /\ notification' = Append(notification, [user |-> u, related_post |-> p])
    /\ ret' = Call("Notification.save", <<u, p>>, "saved")
    /\ UNCHANGED <<user, bookpost, bookpost_seq, comment, savedpost, postlike,
                   userfollow, now, today, writer>>

\* Notification row i .delete()
NotificationDelete(i) ==
    /\ notification' = RemoveAt(notification, i)
    /\ ret' = Call("Notification.delete", <<i>>, 1)
    /\ UNCHANGED <<user, bookpost, bookpost_seq, comment, savedpost, postlike,
                   userfollow, now, today, writer>>

(***************************************************************************)
(* Concurrent requests on PostLike / SavedPost.  A request builds its      *)
(* instance, then its save() reaches the database; the requests' INSERTs   *)
(* are serialised by the unique index.                                     *)
(***************************************************************************)
TableOf(kind) == IF kind = "PostLike" THEN postlike ELSE savedpost

\* The request builds PostLike(user=u, post=p) or SavedPost(user=u, post=p).
\* free is history: no row for the pair was stored when the request began.
WriterBegin(w, kind, u, p) ==
    /\ writer[w].pc = "idle"
    /\ writer' = [writer EXCEPT ![w] =
                    [pc |-> "pending", kind |-> kind, user |-> u, post |-> p,
                     free |-> PairConflicts(TableOf(kind), u, p) = {}]]
    /\ ret' = Call("request", <<w, u, p>>, kind)
    /\ UNCHANGED <<store, now, today>>

\* The request's save() runs
WriterCommit(w) ==
    /\ writer[w].pc = "pending"
    /\ \/ writer[w].kind = "PostLike" /\ PostLikeSave(writer[w].user, writer[w].post)
       \/ writer[w].kind = "SavedPost" /\ SavedPostSave(writer[w].user, writer[w].post)
    /\ writer' = [writer EXCEPT ![w].pc = ret'.result]

(***************************************************************************)
(* Deletion: every ForeignKey is on_delete=models.CASCADE                  *)
(***************************************************************************)
\* The posts deleted along with user u
PostsOf(u) == {p \in DOMAIN bookpost : bookpost[p].author = u}

\* A table with a user and a post column, less the rows that go when the
\* users in us and the posts in ps go
WithoutUserPost(rows, us, ps) ==
    LET Keep(r) == ~(r.user \in us \/ r.post \in ps) IN SelectSeq(rows, Keep)

WithoutNotifications(rows, us, ps) ==
    LET Keep(r) == ~(\/ r.user \in us
                     \/ r.related_post # None /\ ValueOf(r.related_post) \in ps)
    IN  SelectSeq(rows, Keep)

WithoutFollows(rows, us) ==
    LET Keep(r) == ~(r.follower \in us \/ r.followed \in us) IN SelectSeq(rows, Keep)

\* The collector stops at the rows that reference the user directly
CascadePosts_Direct(u) == {}

\* The posts collected through BookPost.author
CascadePosts(u) == PostsOf(u)

\* user.delete(); the result is the number of rows deleted
UserDelete(u) ==
    /\ user' = [v \in DOMAIN user \ {u} |-> user[v]]
    /\ bookpost' = [p \in DOMAIN bookpost \ PostsOf(u) |-> bookpost[p]]
    /\ comment' = WithoutUserPost(comment, {u}, CascadePosts(u))
    /\ savedpost' = WithoutUserPost(savedpost, {u}, CascadePosts(u))
    /\ postlike' = WithoutUserPost(postlike, {u}, CascadePosts(u))
    /\ notification' = WithoutNotifications(notification, {u}, CascadePosts(u))
    /\ userfollow' = WithoutFollows(userfollow, {u})
    /\ ret' = Call("User.delete", <<u>>,
                    1 + Cardinality(PostsOf(u))
                      + (Len(comment) - Len(comment'))
                      + (Len(savedpost) - Len(savedpost'))
                      + (Len(postlike) - Len(postlike'))
                      + (Len(notification) - Len(notification'))
                      + (Len(userfollow) - Len(userfollow')))
    /\ UNCHANGED <<bookpost_seq, now, today, writer>>

\* post.delete(); the result is the number of rows deleted
BookPostDelete(p) ==
    /\ bookpost' = [q \in DOMAIN bookpost \ {p} |-> bookpost[q]]
    /\ comment' = WithoutUserPost(comment, {}, {p})
    /\ savedpost' = WithoutUserPost(savedpost, {}, {p})
    /\ postlike' = WithoutUserPost(postlike, {}, {p})
    /\ notification' = WithoutNotifications(notification, {}, {p})
    /\ ret' = Call("BookPost.delete", <<p>>,
                    1 + (Len(comment) - Len(comment'))
                      + (Len(savedpost) - Len(savedpost'))
                      + (Len(postlike) - Len(postlike'))
                      + (Len(notification) - Len(notification')))
    /\ UNCHANGED <<user, bookpost_seq, userfollow, now, today, writer>>

(***************************************************************************)
(* Specifications                                                          *)
(***************************************************************************)
\* The author registered at the start and one account that is no author
TwoUsers == {u \in DOMAIN user : u \in {1, 2}}

\* Comment writes and the eligibility check
NextComment ==
    \/ \E a \in TwoUsers, act \in BOOLEAN, closed \in BOOLEAN :
          bookpost_seq < MaxPosts /\ BookPostCreate(a, act, closed)
    \/ \E p \in DOMAIN bookpost, act \in BOOLEAN, closed \in BOOLEAN :
          BookPostUpdate(p, act, closed)
    \/ \E p \in DOMAIN bookpost, u \in TwoUsers \cup {AnonymousUser} :
          CanUserComment(p, u)
    \/ \E u \in TwoUsers, p \in DOMAIN bookpost, pin \in BOOLEAN :
          CommentCreate(u, p, pin, DefaultImportance) /\ Len(comment') <= MaxComments
    \/ \E i \in DOMAIN comment, pin \in BOOLEAN :
          CommentUpdate(i, pin, DefaultImportance)
    \/ \E i \in DOMAIN comment : CommentDelete(i)

SpecComment == Init /\ [][NextComment]_vars

\* Pinned-comment retrieval
NextPinned ==
    \/ bookpost_seq < MaxPosts /\ BookPostCreate(1, TRUE, FALSE)
    \/ \E u \in TwoUsers, p \in DOMAIN bookpost, pin \in BOOLEAN,
          imp \in COMMENT_IMPORTANCE :
          CommentCreate(u, p, pin, imp) /\ Len(comment') <= MaxComments
    \/ \E p \in DOMAIN bookpost : GetPinnedComments(p)
    \/ now < MaxTime /\ Tick

SpecPinned == Init /\ [][NextPinned]_vars

\* Concurrent PostLike / SavedPost writes
NextUnique ==
    \/ bookpost_seq < MaxPosts /\ BookPostCreate(1, TRUE, FALSE)
    \/ \E w \in Writers, kind \in {"PostLike", "SavedPost"}, u \in TwoUsers,
          p \in DOMAIN bookpost : WriterBegin(w, kind, u, p)
    \/ \E w \in Writers : WriterCommit(w)

SpecUnique == Init /\ [][NextUnique]_vars

\* Age derivation
NextAge ==
    \/ \E a \in BOOLEAN, d \in {Some(x) : x \in Dates} \cup {None} : UserSave(1, a, d)
    \/ GetAge(1)
    \/ \E d \in Dates : AdvanceDate(d)

SpecAge == Init /\ [][NextAge]_vars

\* Creation and deletion across all tables
Rows(c, s, l, n, f) == Len(c) + Len(s) + Len(l) + Len(n) + Len(f)

\* The step keeps the dependent tables within MaxRows rows
Bounded == Rows(comment', savedpost', postlike', notification', userfollow') <= MaxRows

Next ==
    \/ \E a \in TwoUsers :
          bookpost_seq < MaxPosts /\ BookPostCreate(a, TRUE, FALSE)
    \/ \E u \in TwoUsers, p \in DOMAIN bookpost :
          CommentCreate(u, p, FALSE, DefaultImportance) /\ Bounded
    \/ \E u \in TwoUsers, p \in DOMAIN bookpost :
          SavedPostSave(u, p) /\ UNCHANGED writer /\ Bounded
    \/ \E u \in TwoUsers, p \in DOMAIN bookpost :
          PostLikeSave(u, p) /\ UNCHANGED writer /\ Bounded
    \/ \E u \in TwoUsers, p \in {Some(q) : q \in DOMAIN bookpost} \cup {None} :
          NotificationSave(u, p) /\ Bounded
    \/ \E f \in DOMAIN user, d \in DOMAIN user :
          UserFollowSave(f, d) /\ Bounded
    \/ \E i \in DOMAIN comment : CommentDelete(i)
    \/ \E i \in DOMAIN savedpost : SavedPostDelete(i)
    \/ \E i \in DOMAIN postlike : PostLikeDelete(i)
    \/ \E i \in DOMAIN notification : NotificationDelete(i)
    \/ \E i \in DOMAIN userfollow : UserFollowDelete(i)
    \/ \E u \in DOMAIN user : UserDelete(u)
    \/ \E p \in DOMAIN bookpost : BookPostDelete(p)

Spec == Init /\ [][Next]_vars

(***************************************************************************)
(* Properties                                                              *)
(***************************************************************************)
\* C1: a Follow write whose follower and followed are the same Account fails
\* with the validation error and changes nothing in the store, and no stored
\* Follow has follower = followed.
NoSelfFollowRow ==
    \A i \in DOMAIN userfollow : userfollow[i].follower # userfollow[i].followed

SelfFollowRejected ==
    /\ []NoSelfFollowRow
    /\ [][(ret'.op = "UserFollow.save" /\ ret'.args[1] = ret'.args[2])
            => (ret'.result = "ValueError" /\ UNCHANGED store)]_vars

\* C1 witness: a self-follow was refused while other Follows are stored
SelfFollowRefusedSeen ==
    /\ ret.op = "UserFollow.save"
    /\ ret.args[1] = ret.args[2]
    /\ ret.result = "ValueError"
    /\ userfollow # <<>>

\* C5 as stated: at most one stored Follow links any unordered pair of Accounts
OneFollowPerUnorderedPair ==
    \A i, j \in DOMAIN userfollow :
        i # j => {userfollow[i].follower, userfollow[i].followed}
                   # {userfollow[j].follower, userfollow[j].followed}

\* C5 amended: a Follow between two different Accounts succeeds exactly once
\* per ordered (follower, followed) pair: no two stored Follows have the
\* same follower and the same followed, a write for a pair already stored
\* fails with the conflict and changes nothing, and a write for a pair not
\* stored is saved as one new row.
OneFollowPerOrderedPairRows ==
    \A i, j \in DOMAIN userfollow :
        i # j => <<userfollow[i].follower, userfollow[i].followed>>
                   # <<userfollow[j].follower, userfollow[j].followed>>

OneFollowPerOrderedPair ==
    /\ []OneFollowPerOrderedPairRows
    /\ [][(ret'.op = "UserFollow.save" /\ ret'.args[1] # ret'.args[2])
            => IF \E i \in DOMAIN userfollow :
                    /\ userfollow[i].follower = ret'.args[1]
                    /\ userfollow[i].followed = ret'.args[2]
                 THEN ret'.result = "IntegrityError" /\ UNCHANGED store
                 ELSE /\ ret'.result = "saved"
                      /\ Len(userfollow') = Len(userfollow) + 1
                      /\ userfollow'[Len(userfollow')] =
                           [follower |-> ret'.args[1], followed |-> ret'.args[2]]]_vars

\* C5 witness: with Follows stored in both directions between two Accounts,
\* a repeated write of one of them met the conflict
FollowConflictSeen ==
    /\ ret.op = "UserFollow.save"
    /\ ret.result = "IntegrityError"
    /\ \E i, j \in DOMAIN userfollow :
          /\ userfollow[i].follower = ret.args[1]
          /\ userfollow[i].followed = ret.args[2]
          /\ userfollow[j].follower = ret.args[2]
          /\ userfollow[j].followed = ret.args[1]

\* C6 as stated: a Post that was just created has an author whose is_author
\* flag is true
PostAuthorIsAuthor ==
    ret.op = "BookPost.save" => user[ret.args[2]].is_author

\* C8: no stored Post, Comment, Save, Like, Notification or Follow refers to
\* an Account or a Post that is not stored
CascadeComplete ==
    /\ \A p \in DOMAIN bookpost : bookpost[p].author \in DOMAIN user
    /\ \A i \in DOMAIN comment :
          comment[i].user \in DOMAIN user /\ comment[i].post \in DOMAIN bookpost
    /\ \A i \in DOMAIN savedpost :
          savedpost[i].user \in DOMAIN user /\ savedpost[i].post \in DOMAIN bookpost
    /\ \A i \in DOMAIN postlike :
          postlike[i].user \in DOMAIN user /\ postlike[i].post \in DOMAIN bookpost
    /\ \A i \in DOMAIN notification :
          /\ notification[i].user \in DOMAIN user
          /\ notification[i].related_post # None
               => ValueOf(notification[i].related_post) \in DOMAIN bookpost
    /\ \A i \in DOMAIN userfollow :
          userfollow[i].follower \in DOMAIN user /\ userfollow[i].followed \in DOMAIN user

\* C8 witness: an Account was deleted and with it its Post and two rows of
\* the dependent tables, while another Account stays
CascadeSeen ==
    /\ ret.op = "User.delete"
    /\ ret.result >= 4
    /\ bookpost_seq > 0
    /\ DOMAIN bookpost = {}
    /\ DOMAIN user # {}

\* C2: after a Comment write the stored is_pinned flag is true exactly when
\* the write asked for the pin and the commenter is the Post's author; the
\* write is saved either way
PinOnlyByAuthor ==
    ret.op = "Comment.save" =>
        /\ ret.result = "saved"
        /\ ret.args[1] \in DOMAIN comment
        /\ comment[ret.args[1]].user = ret.args[2]
        /\ comment[ret.args[1]].post = ret.args[3]
        /\ comment[ret.args[1]].is_pinned
             = (ret.args[4] /\ bookpost[ret.args[3]].author = ret.args[2])

\* C2 witness: an Account that is not the Post's author asked for the pin and
\* the Comment was saved unpinned
PinClearedSeen ==
    /\ ret.op = "Comment.save"
    /\ ret.args[4]
    /\ bookpost[ret.args[3]].author # ret.args[2]
    /\ ret.result = "saved"
    /\ ~comment[ret.args[1]].is_pinned

\* C3 as stated: a new Comment is saved only on a Post that is active and
\* whose comment section is not closed
CommentOnlyOnOpenPost ==
    (ret.op = "Comment.save" /\ ret.args[5] /\ ret.result = "saved") =>
        /\ bookpost[ret.args[3]].is_active
        /\ ~bookpost[ret.args[3]].comment_section_closed
        /\ ret.args[2] # AnonymousUser

\* C7: the can-comment check answers true exactly when the Post is active,
\* its comment section is not closed and the Account is authenticated, and
\* the check changes nothing in the store
CanCommentTruthTable ==
    [][ret'.op = "can_user_comment" =>
         /\ ret'.result = (/\ bookpost[ret'.args[1]].is_active
                           /\ ~bookpost[ret'.args[1]].comment_section_closed
                           /\ ret'.args[2] \in DOMAIN user)
         /\ UNCHANGED store]_vars

\* C7 witness: the check refused an authenticated Account on an active Post
\* whose comment section is closed
CanCommentClosedSeen ==
    /\ ret.op = "can_user_comment"
    /\ ret.args[2] \in DOMAIN user
    /\ bookpost[ret.args[1]].is_active
    /\ bookpost[ret.args[1]].comment_section_closed
    /\ ret.result = FALSE

\* C9: pinned-comment retrieval returns each pinned Comment of the Post
\* once and nothing else, by descending importance level and, within one
\* importance level, the earlier Comment first
PinnedCommentsOrdered ==
    ret.op = "get_pinned_comments" =>
        LET s == ret.result
            p == ret.args[1]
        IN  /\ Range(s) = {i \in DOMAIN comment :
                              comment[i].post = p /\ comment[i].is_pinned}
            /\ \A i, j \in DOMAIN s : i # j => s[i] # s[j]
            /\ \A i, j \in DOMAIN s : i < j =>
                  \/ comment[s[i]].importance_level > comment[s[j]].importance_level
                  \/ /\ comment[s[i]].importance_level = comment[s[j]].importance_level
                     /\ comment[s[i]].created_at <= comment[s[j]].created_at

\* C9 witness: two pinned Comments of one importance level written at
\* different instants were returned, next to a Comment that is not pinned
PinnedTieSeen ==
    /\ ret.op = "get_pinned_comments"
    /\ Len(ret.result) = 2
    /\ comment[ret.result[1]].importance_level = comment[ret.result[2]].importance_level
    /\ comment[ret.result[1]].created_at < comment[ret.result[2]].created_at

\* C4: no two stored Likes and no two stored Saves have the same (account,
\* post) pair, and of the requests that have written one pair exactly one
\* was saved; every other one met the uniqueness conflict
Finished(kind, u, p) ==
    {w \in Writers : /\ writer[w].pc \in {"saved", "IntegrityError"}
                     /\ writer[w].kind = kind
                     /\ writer[w].user = u
                     /\ writer[w].post = p}

OneRowPerPair ==
    /\ \A i, j \in DOMAIN postlike :
          i # j => <<postlike[i].user, postlike[i].post>>
                     # <<postlike[j].user, postlike[j].post>>
    /\ \A i, j \in DOMAIN savedpost :
          i # j => <<savedpost[i].user, savedpost[i].post>>
                     # <<savedpost[j].user, savedpost[j].post>>
    /\ \A kind \in {"PostLike", "SavedPost"}, u \in DOMAIN user, p \in DOMAIN bookpost :
          Finished(kind, u, p) # {} =>
              /\ Cardinality({w \in Finished(kind, u, p) : writer[w].pc = "saved"}) = 1
              /\ Cardinality(PairConflicts(TableOf(kind), u, p)) = 1

\* C4 witness: two requests for one pair both began while no row was stored;
\* one was saved and the other met the conflict
RaceSeen ==
    \E v, w \in Writers :
        /\ v # w
        /\ writer[v].kind = writer[w].kind
        /\ writer[v].user = writer[w].user
        /\ writer[v].post = writer[w].post
        /\ writer[v].free /\ writer[w].free
        /\ writer[v].pc = "saved"
        /\ writer[w].pc = "IntegrityError"

\* C10: the age of an Account with a date of birth is the current year
\* minus the birth year, less one when the current (month, day) comes before
\* the birth (month, day); without a date of birth there is no age
AgeDerivation ==
    ret.op = "get_age" =>
        LET dob == user[ret.args[1]].date_of_birth
        IN  IF dob = None
              THEN ret.result = None
              ELSE ret.result =
                     Some(today.year - ValueOf(dob).year
                          - (IF \/ today.month < ValueOf(dob).month
                                \/ /\ today.month = ValueOf(dob).month
                                   /\ today.day < ValueOf(dob).day
                               THEN 1 ELSE 0))

\* C10 witness: an age was derived in the birth month before the birthday,
\* in a later year
AgeBeforeBirthdaySeen ==
    /\ ret.op = "get_age"
    /\ user[ret.args[1]].date_of_birth # None
    /\ today.year > ValueOf(user[ret.args[1]].date_of_birth).year
    /\ today.month = ValueOf(user[ret.args[1]].date_of_birth).month
    /\ today.day < ValueOf(user[ret.args[1]].date_of_birth).day
    /\ ret.result = Some(today.year - ValueOf(user[ret.args[1]].date_of_birth).year - 1)

====
